---- MODULE Spec2Model ----
(***************************************************************************)
(* quick-proj (src/main.py): QuickProject.instantiate_project and          *)
(* load_config as state machines.                                          *)
(*                                                                         *)
(* Python values are encoded as follows.  None is the string "None".  An   *)
(* optional object (pt) is a sequence of length 0 or 1.  A path            *)
(* instantiation_directory / name is the pair <<directory, name>>; the     *)
(* unbound local project_root_path is <<>>.  An exception is a record of   *)
(* its type, its arguments, its notes (add_note) and its __context__ (the  *)
(* exception that was being handled when it was raised).                   *)
(***************************************************************************)
EXTENDS FiniteSets, Integers, Sequences, TLC

\* ------------------------------------------------------------------ bounds
\* Longest init_steps list of a template of the enumerated configs.
MaxSteps == 2

\* ------------------------------------------------- constants of the program
\* main.py line 145: attempts, max_attempts = 0, 1000
max_attempts == 1000

None == "None"

\* ------------------------------------------------------- the environment
\* Callers of instantiate_project.  Spec runs one call (main() makes one).
Calls == {"A", "B"}

\* config.instantiation_directory of the Config handed to QuickProject.
InstDir == "/home/u/quick-projects"

\* Titles generate_project_title() can return; explicit names come from the
\* same set, so that a generated title can collide with an earlier project.
Titles == {"p1", "p2"}

\* File names a step's process may leave in its working directory.
Files == {"f"}

\* The titles of the projects that may exist before the first call.
EarlierProjects == {"p1"}

\* Steps of the enumerated templates: a program found on the search path,
\* with an argument; a program that is not installed; a step with no token.
StepChoices == {<<"uv", "init">>, <<"nosuchcmd">>, <<>>}

\* Return codes of a launched process.
ReturnCodes == {0, 1}

\* ----------------------------------------------------------------- paths
PathJoin(dir, name) == <<dir, name>>

ProjectPaths == {PathJoin(InstDir, n) : n \in Titles}

Unbound == <<>>

\* A path of the file system: it does not exist, or it is a directory
\* holding a set of files.
NoDir == [exists |-> FALSE, files |-> {}]

Dir(fileset) == [exists |-> TRUE, files |-> fileset]

DirStates == {NoDir} \cup {Dir(s) : s \in SUBSET Files}

\* Path.exists()
exists(fsv, path) == fsv[path].exists

\* A mkdir with exist_ok=True.
mkdir_exist_ok(fsv, path) == FALSE

\* Path.mkdir() (exist_ok=False, parents=False): raises FileExistsError when
\* the path exists.
mkdir_raises(fsv, path) == exists(fsv, path)

\* A mkdir that creates nothing.
mkdir_nothing(fsv, path) == fsv

mkdir_fs(fsv, path) == [fsv EXCEPT ![path] = Dir({})]

\* Path.rmdir(): removes an existing empty directory, raises OSError
\* otherwise (FileNotFoundError for a missing path, ENOTEMPTY otherwise).
rmdir_raises(fsv, path) == ~fsv[path].exists \/ fsv[path].files # {}

\* An rmdir that reports success and removes nothing.
rmdir_keeps(fsv, path) == fsv

rmdir_fs(fsv, path) == [fsv EXCEPT ![path] = NoDir]

\* ------------------------------------------------------------ exceptions
NoContext == <<>>

Exc(type, args) ==
    [type |-> type, args |-> args, notes |-> <<>>, context |-> NoContext]

NoExc == Exc("none", <<>>)

\* BaseException.add_note
add_note(e, note) == [e EXCEPT !.notes = Append(@, note)]

\* A raise that loses the exception being handled.
RaisedWithoutContext(e, handled) == e

\* An exception raised while `handled` is being handled gets it as
\* __context__.
RaisedDuring(e, handled) ==
    [e EXCEPT !.context = <<[type |-> handled.type, args |-> handled.args]>>]

\* The OSError Path.rmdir() raises.
rmdir_error(fsv, path) ==
    IF ~fsv[path].exists
    THEN Exc("FileNotFoundError", <<"ENOENT", path[2]>>)
    ELSE Exc("OSError", <<"ENOTEMPTY", path[2]>>)

\* What a call has come to: still running, returned a value, or raised.
Running == [status |-> "running", value |-> None, exc |-> NoExc]

Returned(v) == [status |-> "returned", value |-> v, exc |-> NoExc]

Raised(e) == [status |-> "raised", value |-> None, exc |-> e]

\* ------------------------------------------------------------- templates
RECURSIVE SeqsUpTo(_, _)
SeqsUpTo(S, n) ==
    IF n = 0 THEN {<<>>}
    ELSE LET shorter == SeqsUpTo(S, n - 1)
         IN  shorter \cup {Append(s, x) : s \in {t \in shorter : Len(t) = n - 1}, x \in S}

StepLists == SeqsUpTo(StepChoices, MaxSteps)

\* ProjectTemplate (name, init_steps; description and editor_override play
\* no part in instantiation).
ProjectTemplate(name, init_steps) == [name |-> name, init_steps |-> init_steps]

\* The templates of the enumerated configs: one of the requested name with
\* any list of steps, or one of another name (which no call ever runs) with
\* no step or one step.
TemplateChoices ==
    {ProjectTemplate("T", s) : s \in StepLists}
        \cup {ProjectTemplate("U", s) : s \in {<<>>, << <<"uv", "init">> >>}}

\* config.templates of the enumerated configs: none, one or two templates,
\* names repeated or not.
ConfigTemplates ==
    {<<>>} \cup {<<t>> : t \in TemplateChoices}
           \cup {<<t, u>> : t, u \in TemplateChoices}

\* ----------------------------------------------------------------- state
VARIABLES
    templates,          \* self.templates (QuickProject.__init__)
    fs,                 \* the directories under instantiation_directory
    fs0,                \* fs when the calls were made
    pc,                 \* where each call is in instantiate_project
    template_name,      \* argument template_name
    arg_project_name,   \* argument project_name as the caller passed it
    project_name,       \* local project_name (rebound at line 144)
    pt,                 \* local pt
    attempts,           \* local attempts
    project_root_path,  \* local project_root_path
    i,                  \* loop variable i of enumerate(pt.init_steps)
    handling,           \* the exception the handler of line 180 holds
    outcome,            \* how the call ended
    draws,              \* calls of generate_project_title()
    probes,             \* evaluations of Path.exists() at line 148, per path
    mkdirs,             \* calls of Path.mkdir() at line 157
    launched,           \* calls of subprocess.run() at line 179, in order
    rmdirs,             \* calls of Path.rmdir() at line 188, in order
    stdout,             \* what the call printed
    lpc,                \* where load_config is
    arg_config_path,    \* argument config_path as the caller passed it
    config_path,        \* local config_path (rebound at lines 232 and 240)
    config_dir_exists,  \* whether ~/.quick-proj exists
    config_files,       \* the config files on disk
    config_files0,      \* config_files when load_config was called
    path_kind,          \* what the instantiation directory's path is on disk
    loaded              \* how load_config ended

\* The state of load_config and the state of instantiate_project.
loadvars == <<lpc, arg_config_path, config_path, config_dir_exists, config_files,
              config_files0, path_kind, loaded>>

callvars == <<templates, fs, fs0, pc, template_name, arg_project_name,
              project_name, pt, attempts, project_root_path, i, handling,
              outcome, draws, probes, mkdirs, launched, rmdirs, stdout>>

vars == <<callvars, loadvars>>

\* One printed line.
Line(kind, step, cmd, exc, path) ==
    [kind |-> kind, step |-> step, cmd |-> cmd, exc |-> exc, path |-> path]

\* -------------------------------------------------- lines 129-133: lookup
RECURSIVE Scan(_, _, _)
Scan(ts, name, k) ==
    IF k > Len(ts) THEN <<>>
    ELSE IF name = ts[k].name THEN <<ts[k]>>
    ELSE Scan(ts, name, k + 1)

RECURSIVE ScanLast(_, _, _, _)
ScanLast(ts, name, k, found) ==
    IF k > Len(ts) THEN found
    ELSE ScanLast(ts, name, k + 1, IF name = ts[k].name THEN <<ts[k]>> ELSE found)

\* A scan without the break: the last template of that name wins.
LookupLastMatch(ts, name) == ScanLast(ts, name, 1, <<>>)

\* A lookup that falls back to the first template when no name matches.
LookupWithDefault(ts, name) ==
    IF Scan(ts, name, 1) = <<>> /\ ts # <<>> THEN <<ts[1]>> ELSE Scan(ts, name, 1)

\* for template in self.templates: if template_name == template.name: pt =
\* template; break.  <<>> is pt = None.
LookupTemplate(ts, name) == Scan(ts, name, 1)

\* ",".join(f'"{pt.name}"' for pt in self.templates)
ValidNames(ts) == [k \in 1..Len(ts) |-> ts[k].name]

\* ------------------------------------------------ lines 143-153: the name
\* The while loop of lines 146-149, entered with `n` attempts counted, run
\* for at most `fuel` iterations: the attempts counted when it stops.
RECURSIVE ProbeBlock(_, _, _, _)
ProbeBlock(fsv, path, n, fuel) ==
    IF fuel > 0 /\ exists(fsv, path) /\ n < max_attempts
    THEN ProbeBlock(fsv, path, n + 1, fuel - 1)
    ELSE n

\* The loop run until its condition `exists() and attempts < max_attempts`
\* is false, block after block (which keeps the evaluation of a thousand
\* iterations shallow): the attempts counted at its end.
RECURSIVE ProbeLoop(_, _, _)
ProbeLoop(fsv, path, n) ==
    IF exists(fsv, path) /\ n < max_attempts
    THEN ProbeLoop(fsv, path, ProbeBlock(fsv, path, n, 32))
    ELSE n

\* exists() is evaluated once for every iteration and once more when the
\* condition comes out false.
ProbesOfLoop(n) == n + 1

\* ------------------------------------------- lines 169-175: the command
\* shutil.which: the path of a program on the search path, or None.
which(cmd) == IF cmd = "uv" THEN "/usr/bin/uv" ELSE None

\* command = [executable] + step[1:]
Command(step) ==
    LET executable == IF which(step[1]) = None THEN step[1] ELSE which(step[1])
    IN  IF Len(step) > 1 THEN <<executable>> \o SubSeq(step, 2, Len(step))
        ELSE <<executable>>

\* subprocess.run(command, cwd=...) starts the process when the program
\* file and the working directory exist; FileNotFoundError otherwise.
CanLaunch(fsv, command, cwd) ==
    /\ \E cmd \in {"uv"} : command[1] = which(cmd)
    /\ exists(fsv, cwd)

\* ------------------------------------------------------------ the calls
\* lines 129-140: the lookup, and ProjectTemplateNotExists when pt is None.
Lookup(c) ==
    /\ pc[c] = "lookup"
    /\ pt' = [pt EXCEPT ![c] = LookupTemplate(templates, template_name[c])]
    /\ IF pt'[c] = <<>>
       THEN /\ outcome' = [outcome EXCEPT ![c] =
                  Raised(Exc("ProjectTemplateNotExists",
                             <<template_name[c]>> \o ValidNames(templates)))]
            /\ pc' = [pc EXCEPT ![c] = "done"]
       ELSE /\ pc' = [pc EXCEPT ![c] = "name"]
            /\ UNCHANGED outcome
    /\ UNCHANGED <<templates, fs, fs0, template_name, arg_project_name,
                   project_name, attempts, project_root_path, i, handling,
                   draws, probes, mkdirs, launched, rmdirs, stdout>>
    /\ UNCHANGED loadvars

\* lines 143-151: no project_name was given; one title is generated and the
\* while loop runs to its end (its else clause always runs: there is no break).
GenerateName(c) ==
    /\ pc[c] = "name"
    /\ project_name[c] = None
    /\ \E title \in Titles :
         \E n \in {ProbeLoop(fs, PathJoin(InstDir, title), 0)} :
            LET path == PathJoin(InstDir, title)
            IN  /\ project_name' = [project_name EXCEPT ![c] = title]
                /\ draws' = [draws EXCEPT ![c] = @ + 1]
                /\ attempts' = [attempts EXCEPT ![c] = n]
                /\ probes' = [probes EXCEPT ![c][path] = @ + ProbesOfLoop(n)]
                /\ project_root_path' = [project_root_path EXCEPT ![c] = path]
    /\ pc' = [pc EXCEPT ![c] = "mkdir"]
    /\ UNCHANGED <<templates, fs, fs0, template_name, arg_project_name, pt, i,
                   handling, outcome, mkdirs, launched, rmdirs, stdout>>
    /\ UNCHANGED loadvars

\* lines 152-153: the caller's project_name is used as it is.
ExplicitName(c) ==
    /\ pc[c] = "name"
    /\ project_name[c] # None
    /\ project_root_path' =
          [project_root_path EXCEPT ![c] = PathJoin(InstDir, project_name[c])]
    /\ pc' = [pc EXCEPT ![c] = "mkdir"]
    /\ UNCHANGED <<templates, fs, fs0, template_name, arg_project_name,
                   project_name, pt, attempts, i, handling, outcome, draws,
                   probes, mkdirs, launched, rmdirs, stdout>>
    /\ UNCHANGED loadvars

\* lines 156-164: project_root_path.mkdir(); FileExistsError gets a note and
\* is raised again.
Mkdir(c) ==
    /\ pc[c] = "mkdir"
    /\ mkdirs' = [mkdirs EXCEPT ![c] = @ + 1]
    /\ IF mkdir_raises(fs, project_root_path[c])
       THEN /\ outcome' = [outcome EXCEPT ![c] =
                  Raised(add_note(
                      Exc("FileExistsError", <<"EEXIST", project_root_path[c][2]>>),
                      <<"This occured during instantiation of project template",
                        pt[c][1].name>>))]
            /\ pc' = [pc EXCEPT ![c] = "done"]
            /\ UNCHANGED <<fs, stdout>>
       ELSE /\ fs' = mkdir_fs(fs, project_root_path[c])
            /\ stdout' = [stdout EXCEPT ![c] =
                  Append(@, Line("created", 0, <<>>, "none", project_root_path[c]))]
            /\ pc' = [pc EXCEPT ![c] = "steps"]
            /\ UNCHANGED outcome
    /\ UNCHANGED <<templates, fs0, template_name, arg_project_name, project_name,
                   pt, attempts, project_root_path, i, handling, draws, probes,
                   launched, rmdirs>>
    /\ UNCHANGED loadvars

\* The step the loop of line 167 is at, and its working directory.
CurrentStep(c) == pt[c][1].init_steps[i[c] + 1]

\* One call of subprocess.run, as the history keeps it: `cwd_state` is the
\* working directory as it was when the call was made, `exc` the exception
\* the call raised.
Launch(index, step, command, cwd, cwd_state, spawned, returncode, exc) ==
    [index |-> index, step |-> step, command |-> command, cwd |-> cwd,
     cwd_state |-> cwd_state, spawned |-> spawned, returncode |-> returncode,
     exc |-> exc]

\* The FileNotFoundError of subprocess.run: the child changes directory
\* before it executes the program, so a missing cwd is reported first.
launch_error(fsv, command, cwd) ==
    IF ~exists(fsv, cwd)
    THEN Exc("FileNotFoundError", <<"ENOENT", cwd[2]>>)
    ELSE Exc("FileNotFoundError", <<"ENOENT", command[1]>>)

\* line 167, the loop is exhausted: the function ends and returns None.
Finish(c) ==
    /\ pc[c] = "steps"
    /\ i[c] = Len(pt[c][1].init_steps)
    /\ outcome' = [outcome EXCEPT ![c] = Returned(None)]
    /\ pc' = [pc EXCEPT ![c] = "done"]
    /\ UNCHANGED <<templates, fs, fs0, template_name, arg_project_name,
                   project_name, pt, attempts, project_root_path, i, handling,
                   draws, probes, mkdirs, launched, rmdirs, stdout>>
    /\ UNCHANGED loadvars

\* lines 168-169 on a step without tokens: step[0] raises IndexError, outside
\* the try of line 178.
StepIndexError(c) ==
    /\ pc[c] = "steps"
    /\ i[c] < Len(pt[c][1].init_steps)
    /\ CurrentStep(c) = <<>>
    /\ stdout' = [stdout EXCEPT ![c] =
          Append(@, Line("step", i[c] + 1, CurrentStep(c), "none", Unbound))]
    /\ outcome' = [outcome EXCEPT ![c] = Raised(Exc("IndexError", <<>>))]
    /\ pc' = [pc EXCEPT ![c] = "done"]
    /\ UNCHANGED <<templates, fs, fs0, template_name, arg_project_name,
                   project_name, pt, attempts, project_root_path, i, handling,
                   draws, probes, mkdirs, launched, rmdirs>>
    /\ UNCHANGED loadvars

\* subprocess.run(..., check=True): a non-zero return code raises.
run_checked(code) == code # 0

\* line 179 passes no `check`: no return code makes subprocess.run raise
\* CalledProcessError.
run_raises(code) == FALSE

\* lines 168-179, the process starts: it runs to its end in the project
\* directory, leaves any files there and returns any code; the return code
\* is not looked at and the loop goes on.
StepRuns(c) ==
    /\ pc[c] = "steps"
    /\ i[c] < Len(pt[c][1].init_steps)
    /\ CurrentStep(c) # <<>>
    /\ LET step == CurrentStep(c)
           command == Command(step)
           cwd == project_root_path[c]
       IN  /\ CanLaunch(fs, command, cwd)
           /\ \E code \in ReturnCodes, written \in SUBSET Files :
                /\ launched' = [launched EXCEPT ![c] =
                      Append(@, Launch(i[c], step, command, cwd, fs[cwd], TRUE, code, NoExc))]
                /\ fs' = [fs EXCEPT ![cwd] = Dir(written)]
                /\ IF run_raises(code)
                   THEN /\ handling' = [handling EXCEPT ![c] =
                               Exc("CalledProcessError", <<"returncode", command[1]>>)]
                        /\ pc' = [pc EXCEPT ![c] = "except"]
                        /\ UNCHANGED i
                   ELSE /\ i' = [i EXCEPT ![c] = @ + 1]
                        /\ UNCHANGED <<pc, handling>>
           /\ stdout' = [stdout EXCEPT ![c] =
                 @ \o <<Line("step", i[c] + 1, step, "none", Unbound),
                        Line("command", i[c] + 1, command, "none", Unbound)>>]
    /\ UNCHANGED <<templates, fs0, template_name, arg_project_name,
                   project_name, pt, attempts, project_root_path,
                   outcome, draws, probes, mkdirs, rmdirs>>
    /\ UNCHANGED loadvars

\* lines 168-180, the process cannot be started: subprocess.run raises and
\* the handler of line 180 takes the exception.
StepFailsToLaunch(c) ==
    /\ pc[c] = "steps"
    /\ i[c] < Len(pt[c][1].init_steps)
    /\ CurrentStep(c) # <<>>
    /\ LET step == CurrentStep(c)
           command == Command(step)
           cwd == project_root_path[c]
       IN  /\ ~CanLaunch(fs, command, cwd)
           /\ launched' = [launched EXCEPT ![c] =
                 Append(@, Launch(i[c], step, command, cwd, fs[cwd], FALSE, -1,
                                  launch_error(fs, command, cwd)))]
           /\ handling' = [handling EXCEPT ![c] = launch_error(fs, command, cwd)]
           /\ stdout' = [stdout EXCEPT ![c] =
                 @ \o <<Line("step", i[c] + 1, step, "none", Unbound),
                        Line("command", i[c] + 1, command, "none", Unbound)>>]
    /\ pc' = [pc EXCEPT ![c] = "except"]
    /\ UNCHANGED <<templates, fs, fs0, template_name, arg_project_name,
                   project_name, pt, attempts, project_root_path, i, outcome,
                   draws, probes, mkdirs, rmdirs>>
    /\ UNCHANGED loadvars

\* One call of Path.rmdir, as the history keeps it.
Removal(path, ok) == [path |-> path, ok |-> ok]

\* What the handler does after a successful rmdir: nothing is raised, so the
\* handled exception is dropped and the for loop takes the next step.
AfterRemoval(c) ==
    /\ i' = [i EXCEPT ![c] = @ + 1]
    /\ pc' = [pc EXCEPT ![c] = "steps"]
    /\ UNCHANGED outcome

\* lines 181-193: the handler prints the error and the command and removes
\* the project directory; an OSError of rmdir gets a note and is raised (with
\* the handled exception as its context).
Cleanup(c) ==
    /\ pc[c] = "except"
    /\ LET path == project_root_path[c]
           command == Command(CurrentStep(c))
       IN  /\ stdout' = [stdout EXCEPT ![c] =
                 @ \o <<Line("error", i[c] + 1, <<>>, handling[c].type, Unbound),
                        Line("last_command", i[c] + 1, command, "none", Unbound),
                        Line("removing", i[c] + 1, <<>>, "none", path)>>]
           /\ rmdirs' = [rmdirs EXCEPT ![c] =
                 Append(@, Removal(path, ~rmdir_raises(fs, path)))]
           /\ IF rmdir_raises(fs, path)
              THEN /\ outcome' = [outcome EXCEPT ![c] =
                         Raised(add_note(
                             RaisedDuring(rmdir_error(fs, path), handling[c]),
                             <<"You may need to remove the directory manually, path",
                               path[2]>>))]
                   /\ pc' = [pc EXCEPT ![c] = "done"]
                   /\ UNCHANGED <<fs, i>>
              ELSE /\ fs' = rmdir_fs(fs, path)
                   /\ AfterRemoval(c)
    /\ handling' = [handling EXCEPT ![c] = NoExc]
    /\ UNCHANGED <<templates, fs0, template_name, arg_project_name, project_name,
                   pt, attempts, project_root_path, draws, probes, mkdirs,
                   launched>>
    /\ UNCHANGED loadvars

\* The locals and the histories of the calls before any call has taken a step.
InitLocals ==
    /\ fs0 = fs
    /\ project_name = arg_project_name
    /\ pt = [c \in Calls |-> <<>>]
    /\ attempts = [c \in Calls |-> 0]
    /\ project_root_path = [c \in Calls |-> Unbound]
    /\ i = [c \in Calls |-> 0]
    /\ handling = [c \in Calls |-> NoExc]
    /\ outcome = [c \in Calls |-> Running]
    /\ draws = [c \in Calls |-> 0]
    /\ probes = [c \in Calls |-> [p \in ProjectPaths |-> 0]]
    /\ mkdirs = [c \in Calls |-> 0]
    /\ launched = [c \in Calls |-> <<>>]
    /\ rmdirs = [c \in Calls |-> <<>>]
    /\ stdout = [c \in Calls |-> <<>>]

\* =========================================================== load_config
\* The config file is a JSON text.  A JSON object is kept as the set of the
\* field names it has and the values of the fields the schema knows; the
\* value kept for a field the object does not have is not looked at.
TopFields == {"instantiation_directory", "templates", "editor"}

\* A field name no schema has.
Extra == "comment"

JsonEditor(fields, command) == [fields |-> fields, command |-> command]

JsonTemplate(fields, name, init_steps) ==
    [fields |-> fields, name |-> name, init_steps |-> init_steps]

JsonConfig(fields, dir, ts, editor) ==
    [fields |-> fields, instantiation_directory |-> dir, templates |-> ts,
     editor |-> editor]

\* The text of a file: <<>> is the empty text, <<object>> the text of a JSON
\* object.
EmptyText == <<>>

NoFile == [exists |-> FALSE, text |-> EmptyText]

File(text) == [exists |-> TRUE, text |-> text]

\* Path.home() / ".quick-proj" / "config.json", and a path a caller passes.
DefaultConfigPath == "/home/u/.quick-proj/config.json"

UserConfigPath == "/home/u/my-config.json"

ConfigPaths == {DefaultConfigPath, UserConfigPath}

\* What a path can be on disk.
PathKinds == {"absent", "dir", "file"}

\* Path.exists() on a path of the disk: true of a directory and of a file.
path_exists(kinds, path) == kinds[path] # "absent"

\* class EditorOptions: command is required.
EditorRequired == {"command"}

\* class ProjectTemplate: name, description and init_steps have no default
\* and are required; editor_override defaults to None.
TemplateRequired == {"name", "description", "init_steps"}

TemplateOptional == {"editor_override"}

\* class Config: the three fields are required.
ConfigRequired == TopFields

\* A pydantic error: where, and of which type.
Error(loc, type) == <<loc, type>>

\* The errors of validating an object's field names against a model class.
\* The classes set no model_config, so `extra` is "ignore": a name the class
\* does not declare is dropped and is no error.
FieldErrors(loc, fields, required) ==
    {Error(<<loc, f>>, "missing") : f \in required \ fields}

EditorErrors(loc, je) == FieldErrors(loc, je.fields, EditorRequired)

TemplateErrors(loc, jt) == FieldErrors(loc, jt.fields, TemplateRequired)

\* lines 107-114: the validator of instantiation_directory.
DirectoryErrors(kinds, dir) ==
    IF ~path_exists(kinds, dir)
    THEN {Error(<<"Config", "instantiation_directory">>, "value_error")}
    ELSE {}

\* Config.model_validate_json on the text of a JSON object: all errors.
ConfigErrors(kinds, jc) ==
    FieldErrors("Config", jc.fields, ConfigRequired)
    \cup (IF "instantiation_directory" \in jc.fields
          THEN DirectoryErrors(kinds, jc.instantiation_directory) ELSE {})
    \cup (IF "templates" \in jc.fields
          THEN UNION {TemplateErrors("ProjectTemplate", jc.templates[k]) :
                        k \in 1..Len(jc.templates)}
          ELSE {})
    \cup (IF "editor" \in jc.fields
          THEN EditorErrors("EditorOptions", jc.editor) ELSE {})

\* class Config as an object in memory.
Config(dir, ts, editor) ==
    [instantiation_directory |-> dir, templates |-> ts, editor |-> editor]

EditorOptions(command) == [command |-> command]

\* The Config an error-free JSON object validates to: the declared fields,
\* and nothing of the others.
DecodedConfig(jc) ==
    Config(jc.instantiation_directory,
           [k \in 1..Len(jc.templates) |->
               ProjectTemplate(jc.templates[k].name, jc.templates[k].init_steps)],
           EditorOptions(jc.editor.command))

\* model_dump_json: every declared field of every object is written.
DumpJson(cfg) ==
    JsonConfig(TopFields, cfg.instantiation_directory,
               [k \in 1..Len(cfg.templates) |->
                   JsonTemplate(TemplateRequired \cup TemplateOptional,
                                cfg.templates[k].name, cfg.templates[k].init_steps)],
               JsonEditor(EditorRequired, cfg.editor.command))

\* lines 83-105: the arguments of the default Config.
DefaultConfig ==
    Config(InstDir,
           <<ProjectTemplate("Python Application (UV)",
                 << <<"uv", "init", "--app", "--name", "my-project",
                      "--author-from", "auto", "--vcs", "git">> >>)>>,
           EditorOptions(<<"code">>))

\* How load_config ended: running, returned a Config (<<config>>), or raised.
LoadRunning == [status |-> "running", config |-> <<>>, exc |-> "none", errors |-> {}]

LoadReturned(cfg) ==
    [status |-> "returned", config |-> <<cfg>>, exc |-> "none", errors |-> {}]

LoadRaised(type, errors) ==
    [status |-> "raised", config |-> <<>>, exc |-> type, errors |-> errors]

\* lines 231-232: a path was passed; nothing is created.
GivenPath ==
    /\ lpc = "start"
    /\ config_path # None
    /\ lpc' = "read"
    /\ UNCHANGED <<config_files0, arg_config_path, config_path, config_dir_exists, config_files,
                   path_kind, loaded>>
    /\ UNCHANGED callvars

\* lines 233-242: no path was passed; ~/.quick-proj is created when it is
\* missing, and config.json exists there.
DefaultPath ==
    /\ lpc = "start"
    /\ config_path = None
    /\ config_files[DefaultConfigPath].exists
    /\ config_dir_exists' = TRUE
    /\ config_path' = DefaultConfigPath
    /\ lpc' = "read"
    /\ UNCHANGED <<config_files0, arg_config_path, config_files, path_kind, loaded>>
    /\ UNCHANGED callvars

\* lines 233-246: no path was passed and there is no config.json; open(...,
\* "w+") creates the empty file, then the default Config is constructed
\* (its validator runs and may raise), dumped and written.
Bootstrap ==
    /\ lpc = "start"
    /\ config_path = None
    /\ ~config_files[DefaultConfigPath].exists
    /\ config_dir_exists' = TRUE
    /\ config_path' = DefaultConfigPath
    /\ LET errors == DirectoryErrors(path_kind, DefaultConfig.instantiation_directory)
       IN  IF errors # {}
           THEN /\ config_files' =
                      [config_files EXCEPT ![DefaultConfigPath] = File(EmptyText)]
                /\ loaded' = LoadRaised("ValidationError", errors)
                /\ lpc' = "done"
           ELSE /\ config_files' =
                      [config_files EXCEPT ![DefaultConfigPath] =
                          File(<<DumpJson(DefaultConfig)>>)]
                /\ lpc' = "read"
                /\ UNCHANGED loaded
    /\ UNCHANGED <<config_files0, arg_config_path, path_kind>>
    /\ UNCHANGED callvars

\* lines 248-251: FileNotFoundError when the file is missing; otherwise the
\* text is read and validated.
ReadConfig ==
    /\ lpc = "read"
    /\ LET file == config_files[config_path]
       IN  IF ~file.exists
           THEN loaded' = LoadRaised("FileNotFoundError", {})
           ELSE IF file.text = EmptyText
           THEN loaded' = LoadRaised("ValidationError",
                                     {Error(<<"Config", "">>, "json_invalid")})
           ELSE IF ConfigErrors(path_kind, file.text[1]) # {}
           THEN loaded' = LoadRaised("ValidationError",
                                     ConfigErrors(path_kind, file.text[1]))
           ELSE loaded' = LoadReturned(DecodedConfig(file.text[1]))
    /\ lpc' = "done"
    /\ UNCHANGED <<config_files0, arg_config_path, config_path, config_dir_exists, config_files,
                   path_kind>>
    /\ UNCHANGED callvars

\* load_config is not running.
LoadIdle ==
    /\ lpc = "idle"
    /\ arg_config_path = None
    /\ config_path = None
    /\ config_dir_exists = TRUE
    /\ config_files = [p \in ConfigPaths |-> NoFile]
    /\ config_files0 = config_files
    /\ path_kind = [d \in {InstDir} |-> "dir"]
    /\ loaded = LoadRunning

\* The JSON objects of the enumerated config files: any set of field names,
\* known and unknown, at the top, in the template and in the editor.
JsonEditors == {JsonEditor(f, <<"code">>) : f \in SUBSET (EditorRequired \cup {Extra})}

JsonTemplates ==
    {JsonTemplate(f, "T", s) :
        f \in SUBSET (TemplateRequired \cup TemplateOptional \cup {Extra}),
        s \in {<< <<"uv", "init">> >>, << <<>> >>}}

JsonConfigs ==
    {JsonConfig(f, InstDir, ts, e) :
        f \in SUBSET (TopFields \cup {Extra}),
        ts \in {<<>>} \cup {<<t>> : t \in JsonTemplates},
        e \in JsonEditors}

\* The files config.json can be when load_config is called.
ConfigFileStates == {NoFile, File(EmptyText)} \cup {File(<<jc>>) : jc \in JsonConfigs}

\* load_config(config_path) is called; no call of instantiate_project runs.
InitLoad ==
    /\ lpc = "start"
    /\ arg_config_path \in {None, UserConfigPath}
    /\ config_path = arg_config_path
    /\ config_dir_exists \in BOOLEAN
    /\ \E file \in ConfigFileStates :
         LET path == IF arg_config_path = None THEN DefaultConfigPath
                     ELSE arg_config_path
         IN  config_files = [p \in ConfigPaths |-> IF p = path THEN file ELSE NoFile]
    /\ config_files0 = config_files
    /\ config_files[DefaultConfigPath].exists => config_dir_exists
    /\ path_kind \in [{InstDir} -> PathKinds]
    /\ loaded = LoadRunning
    /\ pc = [c \in Calls |-> "idle"]
    /\ template_name = [c \in Calls |-> "T"]
    /\ arg_project_name = [c \in Calls |-> None]
    /\ templates = <<>>
    /\ fs = [p \in ProjectPaths |-> NoDir]
    /\ InitLocals

NextLoad == GivenPath \/ DefaultPath \/ Bootstrap \/ ReadConfig

SpecLoad == InitLoad /\ [][NextLoad]_vars

\* ---------------------------------------------------------- specification
\* Template names the callers ask for.
RequestedNames == {"T"}

\* QuickProject(config) for a validated config, and the projects on disk.
InitShared ==
    /\ templates \in ConfigTemplates
    /\ fs \in [ProjectPaths -> DirStates]
    /\ \A p \in ProjectPaths : exists(fs, p) => p[2] \in EarlierProjects
    /\ InitLocals

\* main(): one QuickProject, one call of instantiate_project.
Init ==
    /\ pc = [c \in Calls |-> IF c = "A" THEN "lookup" ELSE "idle"]
    /\ template_name \in [Calls -> RequestedNames]
    /\ \E pname \in {None} \cup Titles :
         arg_project_name = [c \in Calls |-> IF c = "A" THEN pname ELSE None]
    /\ InitShared
    /\ LoadIdle

Step(c) ==
    \/ Lookup(c)
    \/ GenerateName(c)
    \/ ExplicitName(c)
    \/ Mkdir(c)
    \/ Finish(c)
    \/ StepIndexError(c)
    \/ StepRuns(c)
    \/ StepFailsToLaunch(c)
    \/ Cleanup(c)

Next == \E c \in Calls : Step(c)

Spec == Init /\ [][Next]_vars

\* The project a call may be asked to make by name.
SharedTitle == "p1"

\* Two calls of instantiate_project on one QuickProject, in two threads or
\* two processes over the same instantiation directory, no project on disk
\* yet: each asks for template "T", by name or with a generated name.
\* The steps of the two calls interleave action by action; the probe loop of
\* lines 146-148 is one action, which fixes `attempts` but not which path a
\* call goes on to create.
InitConc ==
    /\ pc = [c \in Calls |-> "lookup"]
    /\ template_name = [c \in Calls |-> "T"]
    /\ arg_project_name \in [Calls -> {None, SharedTitle}]
    /\ templates \in {<<ProjectTemplate("T", s)>> : s \in StepLists}
    /\ fs = [p \in ProjectPaths |-> NoDir]
    /\ InitLocals
    /\ LoadIdle

SpecConc == InitConc /\ [][Next]_vars

\* ================================================================ claims
\* Whether some configured template has this name.
Configured(name) == \E k \in 1..Len(templates) : templates[k].name = name

\* The smallest index of a template of this name.
FirstIndex(name) ==
    CHOOSE k \in 1..Len(templates) :
        /\ templates[k].name = name
        /\ \A j \in 1..(k - 1) : templates[j].name # name

\* The calls of subprocess.run that could not start their process.
FailedLaunches(c) == {j \in 1..Len(launched[c]) : ~launched[c][j].spawned}

\* An exception as another exception's __context__ holds it.
AsContext(e) == <<[type |-> e.type, args |-> e.args]>>

\* Whether exception e is, or has as its context, the exception `primary`.
Carries(e, primary) ==
    \/ (e.type = primary.type /\ e.args = primary.args)
    \/ e.context = AsContext(primary)

RECURSIVE SumOver(_, _)
SumOver(f, S) ==
    IF S = {} THEN 0
    ELSE LET x == CHOOSE y \in S : TRUE IN f[x] + SumOver(f, S \ {x})

\* C1: once subprocess.run has failed to start a step, the call makes no
\* further call of subprocess.run: a failed launch is the last launch.
C1_NoStepAfterLaunchFailure ==
    \A c \in Calls : \A j \in FailedLaunches(c) : j = Len(launched[c])

\* C2: a call in which some step failed to launch ends by raising, and what
\* it raises is, or carries as context, the first launch failure.
C2_LaunchFailureEndsInFailure ==
    \A c \in Calls :
        (pc[c] = "done" /\ FailedLaunches(c) # {}) =>
            LET first == CHOOSE j \in FailedLaunches(c) :
                             \A k \in FailedLaunches(c) : j <= k
            IN  /\ outcome[c].status = "raised"
                /\ Carries(outcome[c].exc, launched[c][first].exc)

\* C3: when a step failed to launch and the rmdir of the handler failed too,
\* the call raises the rmdir error with a note naming the directory, that
\* error has the launch failure as its context, and the launch failure and
\* the command were printed: the cleanup error never stands alone.
C3_CleanupFailureReportsBoth ==
    \A c \in Calls :
        (pc[c] = "done" /\ rmdirs[c] # <<>> /\ ~rmdirs[c][Len(rmdirs[c])].ok) =>
            LET failed == launched[c][Len(launched[c])]
                e == outcome[c].exc
            IN  /\ ~failed.spawned
                /\ outcome[c].status = "raised"
                /\ e.type \in {"OSError", "FileNotFoundError"}
                /\ e.args[1] \in {"ENOTEMPTY", "ENOENT"}
                /\ e.notes =
                     << <<"You may need to remove the directory manually, path",
                          project_root_path[c][2]>> >>
                /\ e.context = AsContext(failed.exc)
                /\ failed.exc.type = "FileNotFoundError"
                /\ \E n \in 1..Len(stdout[c]) :
                     /\ stdout[c][n].kind = "error"
                     /\ stdout[c][n].exc = failed.exc.type
                     /\ stdout[c][n].step = failed.index + 1
                /\ \E n \in 1..Len(stdout[c]) :
                     /\ stdout[c][n].kind = "last_command"
                     /\ stdout[c][n].cmd = failed.command
                     /\ stdout[c][n].step = failed.index + 1

\* C3 happens: an earlier step left a file, a later step failed to launch,
\* and rmdir failed on the directory that is not empty.
C3_Witness ==
    /\ pc["A"] = "done"
    /\ Len(launched["A"]) = 2
    /\ launched["A"][1].spawned
    /\ ~launched["A"][2].spawned
    /\ rmdirs["A"] = <<Removal(project_root_path["A"], FALSE)>>
    /\ outcome["A"].exc.args[1] = "ENOTEMPTY"
    /\ fs[project_root_path["A"]] = Dir({"f"})

\* C4: when a step failed to launch while the project directory existed and
\* was empty, the directory does not exist once the call has ended.
C4_EmptyDirectoryIsGone ==
    \A c \in Calls :
        (/\ pc[c] = "done"
         /\ \E j \in FailedLaunches(c) : launched[c][j].cwd_state = Dir({}))
            => ~exists(fs, project_root_path[c])

\* C4 happens with the failing step in second place: the first step ran and
\* left nothing, the second could not be launched, the directory is gone.
C4_Witness ==
    /\ pc["A"] = "done"
    /\ Len(launched["A"]) >= 2
    /\ launched["A"][1].spawned
    /\ ~launched["A"][2].spawned
    /\ launched["A"][2].cwd_state = Dir({})
    /\ rmdirs["A"][1].ok
    /\ ~exists(fs, project_root_path["A"])

\* C5: no path is probed for existence twice in one call, and the call has
\* drawn as many titles from the generator as it has made probes.
C5_FreshCandidatePerRetry ==
    \A c \in Calls :
        /\ \A p \in ProjectPaths : probes[c][p] <= 1
        /\ draws[c] = SumOver(probes[c], ProjectPaths)

\* C6: a call without a project name whose probing used up all max_attempts
\* attempts ends with NameExhaustionError, has called mkdir not once and has
\* launched nothing.
C6_ExhaustionRaisesNameExhaustion ==
    \A c \in Calls :
        (pc[c] = "done" /\ arg_project_name[c] = None /\ attempts[c] = max_attempts) =>
            /\ outcome[c].status = "raised"
            /\ outcome[c].exc.type = "NameExhaustionError"
            /\ mkdirs[c] = 0
            /\ launched[c] = <<>>

\* Whether the call was made with an explicit project name, for a configured
\* template, onto a path that existed.
ExplicitOntoExisting(c) ==
    /\ pc[c] # "idle"
    /\ arg_project_name[c] # None
    /\ Configured(template_name[c])
    /\ exists(fs0, PathJoin(InstDir, arg_project_name[c]))

\* C8: a call with an explicit project name (and a configured template name)
\* whose path already exists never launches a step, never removes a
\* directory, leaves every directory and its files as they were, and ends
\* with FileExistsError carrying a note that names the template.
C8_ExistingDirectoryUntouched ==
    \A c \in Calls :
        ExplicitOntoExisting(c) =>
            /\ fs = fs0
            /\ launched[c] = <<>>
            /\ rmdirs[c] = <<>>
            /\ draws[c] = 0
            /\ pc[c] \in {"lookup", "name", "mkdir", "done"}
            /\ pc[c] = "done" =>
                 /\ outcome[c].status = "raised"
                 /\ outcome[c].exc.type = "FileExistsError"
                 /\ outcome[c].exc.notes =
                      << <<"This occured during instantiation of project template",
                           template_name[c]>> >>

\* C8 happens: the call onto an existing directory that holds a file ended.
C8_Witness ==
    /\ ExplicitOntoExisting("A")
    /\ pc["A"] = "done"
    /\ mkdirs["A"] = 1
    /\ fs0[PathJoin(InstDir, arg_project_name["A"])] = Dir({"f"})
    /\ outcome["A"].exc.type = "FileExistsError"

\* C9: a call whose template name no configured template has generates no
\* name, calls neither mkdir nor subprocess.run nor rmdir, leaves the file
\* system as it was, and ends with ProjectTemplateNotExists, whose message
\* holds the requested name and the configured names in order.
C9_UnknownTemplateIsTerminal ==
    \A c \in Calls :
        (pc[c] # "idle" /\ ~Configured(template_name[c])) =>
            /\ pc[c] \in {"lookup", "done"}
            /\ draws[c] = 0
            /\ mkdirs[c] = 0
            /\ launched[c] = <<>>
            /\ rmdirs[c] = <<>>
            /\ project_root_path[c] = Unbound
            /\ fs = fs0
            /\ pc[c] = "done" =>
                 /\ outcome[c].status = "raised"
                 /\ outcome[c].exc.type = "ProjectTemplateNotExists"
                 /\ outcome[c].exc.args =
                      <<template_name[c]>> \o [k \in 1..Len(templates) |-> templates[k].name]

\* C9 happens: templates are configured, none of the requested name, and
\* the call has ended.
C9_Witness ==
    /\ pc["A"] = "done"
    /\ Len(templates) = 2
    /\ ~Configured(template_name["A"])
    /\ arg_project_name["A"] = None
    /\ outcome["A"].exc.type = "ProjectTemplateNotExists"

\* C10: for a configured template name, pt is the template of the smallest
\* index with that name, the steps given to subprocess.run are the first
\* steps of that template's init_steps in order, and a call that returns has
\* gone through all of them.
C10_FirstMatchWins ==
    \A c \in Calls :
        (pc[c] \notin {"idle", "lookup"} /\ Configured(template_name[c])) =>
            LET first == templates[FirstIndex(template_name[c])]
            IN  /\ pt[c] = <<first>>
                /\ Len(launched[c]) <= Len(first.init_steps)
                /\ \A j \in 1..Len(launched[c]) :
                     /\ launched[c][j].index = j - 1
                     /\ launched[c][j].step = first.init_steps[j]
                /\ outcome[c].status = "returned" =>
                     Len(launched[c]) = Len(first.init_steps)

\* C10 happens: two templates have the requested name and different steps,
\* and the call has run the steps of the first and returned.
C10_Witness ==
    /\ pc["A"] = "done"
    /\ outcome["A"].status = "returned"
    /\ Len(templates) = 2
    /\ templates[1].name = template_name["A"]
    /\ templates[2].name = template_name["A"]
    /\ templates[1].init_steps # templates[2].init_steps
    /\ Len(launched["A"]) = 2
    /\ launched["A"][2].step = templates[1].init_steps[2]

\* The JSON object load_config has read, once it has read one.
ObjectRead == config_files[config_path].text[1]

\* Whether load_config has ended after reading the text of a JSON object.
HasReadObject ==
    /\ lpc = "done"
    /\ config_path \in ConfigPaths
    /\ config_files[config_path].exists
    /\ config_files[config_path].text # EmptyText
    /\ loaded.exc # "FileNotFoundError"

\* Whether a JSON object lacks a required field or has a field its schema
\* does not declare, at the top or in a template or in the editor.
MissingField(jc) ==
    \/ ConfigRequired \ jc.fields # {}
    \/ "editor" \in jc.fields /\ EditorRequired \ jc.editor.fields # {}
    \/ /\ "templates" \in jc.fields
       /\ \E k \in 1..Len(jc.templates) : TemplateRequired \ jc.templates[k].fields # {}

UnknownField(jc) ==
    \/ jc.fields \ TopFields # {}
    \/ "editor" \in jc.fields /\ jc.editor.fields \ EditorRequired # {}
    \/ /\ "templates" \in jc.fields
       /\ \E k \in 1..Len(jc.templates) :
            jc.templates[k].fields \ (TemplateRequired \cup TemplateOptional) # {}

\* C7: load_config raises a validation error for every JSON object that
\* lacks a required field or has a field name outside the schema; it never
\* returns a Config for such an object.
C7_UnknownOrMissingFieldRejected ==
    (HasReadObject /\ (MissingField(ObjectRead) \/ UnknownField(ObjectRead))) =>
        /\ loaded.status = "raised"
        /\ loaded.exc = "ValidationError"

\* Whether every step of a template has a first token that is a program on
\* the search path.
AllLaunchable(t) ==
    \A k \in 1..Len(t.init_steps) :
        t.init_steps[k] # <<>> /\ which(t.init_steps[k][1]) # None

\* C11: a step whose process was started and returned a non-zero code does
\* not stop the call: no rmdir is called for it, the step after it is taken
\* up, and when every step of the template can be launched the directory
\* stays, nothing is removed and the call returns after launching them all.
C11_NonZeroExitIsNotFatal ==
    \A c \in Calls : \A j \in 1..Len(launched[c]) :
        (launched[c][j].spawned /\ launched[c][j].returncode # 0) =>
            /\ Len(rmdirs[c]) <= Cardinality(FailedLaunches(c))
            /\ (pc[c] = "done" /\ j < Len(pt[c][1].init_steps)) =>
                  \/ Len(launched[c]) > j
                  \/ outcome[c].exc.type = "IndexError"
            /\ AllLaunchable(pt[c][1]) =>
                  /\ rmdirs[c] = <<>>
                  /\ exists(fs, project_root_path[c])
                  /\ pc[c] \in {"steps", "done"}
                  /\ pc[c] = "done" =>
                       /\ outcome[c].status = "returned"
                       /\ Len(launched[c]) = Len(pt[c][1].init_steps)
                       /\ \A k \in 1..Len(launched[c]) : launched[c][k].spawned

\* C11 happens: the first of two steps returned 1, the second was launched
\* after it, nothing was removed and the call returned.
C11_Witness ==
    /\ pc["A"] = "done"
    /\ outcome["A"].status = "returned"
    /\ Len(launched["A"]) = 2
    /\ launched["A"][1].returncode = 1
    /\ launched["A"][2].spawned
    /\ rmdirs["A"] = <<>>
    /\ exists(fs, project_root_path["A"])

\* C12: a call for a template without steps onto a path that did not exist
\* calls mkdir once, launches nothing, removes nothing, and returns with the
\* directory on disk (and empty).
C12_NoStepsCreatesDirectory ==
    \A c \in Calls :
        (/\ pc[c] = "done"
         /\ pt[c] # <<>>
         /\ pt[c][1].init_steps = <<>>
         /\ ~exists(fs0, project_root_path[c]))
            => /\ outcome[c].status = "returned"
               /\ mkdirs[c] = 1
               /\ launched[c] = <<>>
               /\ rmdirs[c] = <<>>
               /\ fs[project_root_path[c]] = Dir({})

\* C12 happens, with a generated name.
C12_Witness ==
    /\ pc["A"] = "done"
    /\ pt["A"] # <<>>
    /\ pt["A"][1].init_steps = <<>>
    /\ arg_project_name["A"] = None
    /\ outcome["A"].status = "returned"
    /\ fs0[project_root_path["A"]] = NoDir
    /\ fs[project_root_path["A"]] = Dir({})

\* C13: a call that returns, returns the path of the project directory.
C13_ReturnsProjectRoot ==
    \A c \in Calls :
        outcome[c].status = "returned" =>
            /\ outcome[c].value # None
            /\ outcome[c].value = project_root_path[c]

\* C14: load_config returns a Config only when its instantiation_directory
\* is a directory on disk; a path that is missing or is a regular file makes
\* it raise a validation error.
C14_InstantiationDirectoryIsDirectory ==
    /\ loaded.status = "returned" =>
          path_kind[loaded.config[1].instantiation_directory] = "dir"
    /\ (HasReadObject
        /\ "instantiation_directory" \in ObjectRead.fields
        /\ path_kind[ObjectRead.instantiation_directory] # "dir") =>
          /\ loaded.status = "raised"
          /\ loaded.exc = "ValidationError"

\* C16: every Config load_config returns has only steps of at least one
\* token in the init_steps of its templates.
C16_StepsHaveAnExecutable ==
    loaded.status = "returned" =>
        \A k \in 1..Len(loaded.config[1].templates) :
            \A n \in 1..Len(loaded.config[1].templates[k].init_steps) :
                Len(loaded.config[1].templates[k].init_steps[n]) >= 1

\* Whether load_config was called without a path and is past lines 231-246.
DefaultPathTaken == arg_config_path = None /\ lpc \in {"read", "done"}

\* C17: after load_config without a path, when there was no config.json, the
\* file exists, holds the dump of the default Config and validates without
\* error; it is never empty.  A config.json that existed is left as it was.
C17_BootstrapWritesValidConfig ==
    DefaultPathTaken =>
        IF config_files0[DefaultConfigPath].exists
        THEN config_files = config_files0
        ELSE /\ config_files[DefaultConfigPath].exists
             /\ config_files[DefaultConfigPath].text # EmptyText
             /\ config_files[DefaultConfigPath].text = <<DumpJson(DefaultConfig)>>
             /\ ConfigErrors(path_kind, config_files[DefaultConfigPath].text[1]) = {}

\* Whether the call's mkdir has succeeded (line 164 printed the path).
Created(c) == \E n \in 1..Len(stdout[c]) : stdout[c][n].kind = "created"

\* The calls of subprocess.run before the j-th that could not start a
\* process: each was followed by one rmdir of the handler.
FailedBefore(c, j) == {k \in FailedLaunches(c) : k < j}

\* C18: subprocess.run is called for the steps of the template in their
\* order, once each, the next one only when the loop has come back to its
\* head; its cwd is the project directory of the call, and a process that
\* was started found that directory on disk, made by this call's mkdir and
\* not removed by any rmdir of the call since.
C18_StepsInOrderInProjectRoot ==
    \A c \in Calls :
        /\ pc[c] = "steps" => Len(launched[c]) = i[c]
        /\ pc[c] = "except" => Len(launched[c]) = i[c] + 1
        /\ \A j \in 1..Len(launched[c]) :
             /\ launched[c][j].index = j - 1
             /\ launched[c][j].step = pt[c][1].init_steps[j]
             /\ launched[c][j].cwd = project_root_path[c]
             /\ launched[c][j].spawned =>
                  /\ launched[c][j].cwd_state.exists
                  /\ Created(c)
                  /\ mkdirs[c] = 1
                  /\ \A k \in 1..Cardinality(FailedBefore(c, j)) : ~rmdirs[c][k].ok

\* C19: a call that made its directory and then raised has called rmdir,
\* and either the directory is gone or the exception raised carries the note
\* that names the directory to remove by hand.
C19_FailureRollsBack ==
    \A c \in Calls :
        (pc[c] = "done" /\ outcome[c].status = "raised" /\ Created(c)) =>
            /\ rmdirs[c] # <<>>
            /\ \/ ~exists(fs, project_root_path[c])
               \/ outcome[c].exc.notes =
                     << <<"You may need to remove the directory manually, path",
                          project_root_path[c][2]>> >>

\* Whether the call's mkdir raised FileExistsError.
CreateFailed(c) ==
    /\ outcome[c].status = "raised"
    /\ outcome[c].exc.type = "FileExistsError"

\* Two calls that have both called mkdir, on one path that was free when
\* they started.
BothCreatedSamePath ==
    /\ \A c \in Calls : mkdirs[c] = 1
    /\ project_root_path["A"] = project_root_path["B"]
    /\ ~exists(fs0, project_root_path["A"])

\* C15 as stated: of two calls that target the same path, free at the
\* start, exactly one mkdir succeeds and the other raises FileExistsError.
C15_ExactlyOneCreateSucceeds ==
    BothCreatedSamePath =>
        \E c, d \in Calls : c # d /\ Created(c) /\ ~Created(d) /\ CreateFailed(d)

\* A step of call c that leaves line 157.
LeavesMkdir(c) == pc[c] = "mkdir" /\ pc'[c] # "mkdir"

\* What mkdir does in one step, by the state of the path at that step only.
CreateOrFail(c) ==
    IF exists(fs, project_root_path[c])
    THEN /\ CreateFailed(c)'
         /\ ~Created(c)'
         /\ fs' = fs
    ELSE /\ exists(fs', project_root_path[c])
         /\ Created(c)'
         /\ outcome'[c] = Running

\* Whether any rmdir of any call has removed a directory.
SomeRemoval == \E c \in Calls : \E k \in 1..Len(rmdirs[c]) : rmdirs[c][k].ok

\* C15, amended: mkdir creates the directory or raises FileExistsError by
\* the state of the path at that very step, whatever a probe saw before; of
\* two calls on one path that was free, at least one mkdir succeeds, and
\* exactly one succeeds and the other raises FileExistsError unless an rmdir
\* has removed the directory.
C15_CreateIsAtomic ==
    /\ [][\A c \in Calls : LeavesMkdir(c) => CreateOrFail(c)]_vars
    /\ [](BothCreatedSamePath =>
            /\ \E c \in Calls : Created(c)
            /\ ~SomeRemoval => C15_ExactlyOneCreateSucceeds)

\* C15 happens: both calls generated the same name; B's probe found the path
\* free and its mkdir raised FileExistsError all the same, A having made
\* the directory in between.
C15_Witness ==
    /\ BothCreatedSamePath
    /\ \A c \in Calls : arg_project_name[c] = None
    /\ attempts["B"] = 0
    /\ CreateFailed("B")
    /\ Created("A")
    /\ ~SomeRemoval

\* The launch that rmdir number k of call c followed.
NthFailed(c, k) ==
    CHOOSE j \in FailedLaunches(c) : Cardinality(FailedBefore(c, j)) = k - 1

\* C20: once a call has removed its directory, it starts no process in that
\* path and removes nothing there any more; what is there from then on was
\* made by the other call.
C20_NoActionOnForeignDirectory ==
    \A c \in Calls :
        \A k \in 1..Len(rmdirs[c]) :
            rmdirs[c][k].ok =>
                /\ \A j \in 1..Len(launched[c]) :
                     j > NthFailed(c, k) => ~launched[c][j].spawned
                /\ \A m \in 1..Len(rmdirs[c]) : m > k => ~rmdirs[c][m].ok

====
